---- MODULE Spec2Model ----
(***************************************************************************)
(* Submarine-Simulator: the submarine registry (Subamrines), the vehicle   *)
(* entity (Submarine) and the mutable physical state (SubmarineState).     *)
(*                                                                         *)
(* Masses are integers in kilograms, as in the preset tables.  Vectors are *)
(* tuples of exact rationals <<numerator, denominator>>.  THREE.Vector3    *)
(* and THREE.Quaternion values are objects: a state field holds a          *)
(* reference into `heap`, so that sharing of an object between the state   *)
(* and a caller is visible.                                                *)
(***************************************************************************)
EXTENDS Integers, Sequences, FiniteSets, TLC

VARIABLES
    items,      \* Subamrines.items: registered identifier -> vehicle
    current,    \* Subamrines.current: the active vehicle, or Undefined
    tanks,      \* per vehicle: currentTotalWaterMass and the two tank masses
    heap,       \* object -> value of every Vector3 / Quaternion object
    held,       \* the object the last vector getter returned to its caller
    last,       \* the last call: operation, target, argument, tanks it found
    result,     \* what the last call returned to its caller
    observer,   \* a listener of SwitchSubmarine: events of the last switch, vehicle it saw
    window,     \* the listeners registered on window for the resize event
    renderer,   \* the Renderer: life cycle, sizes and WebGL instance
    pairing     \* per vehicle: its constants object and its state object

vars == <<items, current, tanks, heap, held, last, result, observer, window,
          renderer, pairing>>

\* the variables of the view and of the vehicle entities
others == <<window, renderer, pairing>>

----------------------------------------------------------------------------
(* Bounds of the model *)

\* Tank masses are followed to 1000 / 2^Prec kilograms (every mass of the
\* preset tables is a multiple of 1000 kg); a redistribution whose even split
\* is finer than that is beyond the bound.
Prec == 1

----------------------------------------------------------------------------
(* Exact rationals, standing for the JavaScript numbers of vector fields *)

Abs(x) == IF x < 0 THEN -x ELSE x

RECURSIVE GCD(_, _)
GCD(a, b) == IF b = 0 THEN a ELSE GCD(b, a % b)

\* n/d in lowest terms with a positive denominator (d # 0)
Rat(n, d) ==
    LET g == GCD(Abs(n), Abs(d))
        s == IF d < 0 THEN -1 ELSE 1
    IN  <<(s * n) \div g, (s * d) \div g>>

RatMul(p, q) ==
    LET a == Rat(p[1], q[2])
        b == Rat(q[1], p[2])
    IN  Rat(a[1] * b[1], a[2] * b[2])

RatInt(n) == <<n, 1>>

RatAdd(p, q) == Rat(p[1] * q[2] + q[1] * p[2], p[2] * q[2])

RatNeg(p) == <<-p[1], p[2]>>

RatSub(p, q) == RatAdd(p, RatNeg(q))

RatSign(p) == IF p[1] > 0 THEN 1 ELSE IF p[1] < 0 THEN -1 ELSE 0

Vector3(x, y, z) == <<x, y, z>>

Quaternion(x, y, z, w) == <<x, y, z, w>>

ZeroVector == Vector3(RatInt(0), RatInt(0), RatInt(0))

IdentityQuaternion == Quaternion(RatInt(0), RatInt(0), RatInt(0), RatInt(1))

----------------------------------------------------------------------------
(* The preset vehicles *)

Ohio == "Ohio"

Typhoon == "Typhoon"

SubmarineTypes == {Ohio, Typhoon}

\* an identifier that initItems never registers
Unregistered == "Akula"

\* the value of items[id] for an id that is not a key of items
Undefined == "undefined"

emptyMass(t) == IF t = Ohio THEN 16764000 ELSE 23200000

maxMass(t) == IF t = Ohio THEN 36528000 ELSE 48000000

length(t) == IF t = Ohio THEN 170 ELSE 175

ballastTankCapacity(t) == maxMass(t) - emptyMass(t)

----------------------------------------------------------------------------
(* Objects *)

\* the vector- and quaternion-valued fields of a SubmarineState
VectorFields == {"currentSpeed", "currentAcceleration", "currentPosition",
                 "currentOrientation", "angularVelocity",
                 "angularAcceleration", "centerOfMass"}

\* both vehicles built around the same field objects
sharedFieldObject(t, f) == <<Typhoon, f>>

\* initOhio and initTyphoon build every field from its own `new` expression,
\* so each field of each vehicle is an object of its own.
fieldObject(t, f) == <<t, f>>

\* the object a cloning getter hands to its caller
ReturnedCopy == <<"caller", "copy">>

NoObject == <<"caller", "none">>

StateObjects == {fieldObject(t, f) : t \in SubmarineTypes, f \in VectorFields}

Objects == StateObjects \cup {ReturnedCopy}

\* value of a heap cell that holds no live object
Free == <<>>

initialValue(f) == IF f = "currentOrientation" THEN IdentityQuaternion ELSE ZeroVector

----------------------------------------------------------------------------
(* SubmarineState: ballast *)

Min(a, b) == IF a < b THEN a ELSE b

Max(a, b) == IF a > b THEN a ELSE b

maxTankCapacity(t) == ballastTankCapacity(t) \div 2

Resolution == 1000 \div (2 ^ Prec)

\* requests of the driver: below zero, zero, inside the range, the full
\* capacity and beyond it
MassArgs(t) == {-1000000, 0, 2000000, 5000000, ballastTankCapacity(t), 30000000}

\* requests used while both vehicles are driven
RegistryArgs(t) == {0, 30000000}

\* all of the added water put in the front tank
evenSplitFrontOnly(front, back, currentTotalWaterMass) ==
    [front |-> front + (currentTotalWaterMass - (front + back)), back |-> back]

\* the even split of the added water, lines 72-73
evenSplit(front, back, currentTotalWaterMass) ==
    LET oldTotalWater == front + back
        totalAddedWater == currentTotalWaterMass - oldTotalWater
    IN  [front |-> front + totalAddedWater \div 2,
         back |-> back + totalAddedWater \div 2]

\* the front tank is clamped but its excess or deficit is dropped
spillFrontDropped(w, max) ==
    [front |-> IF w.front > max THEN max ELSE IF w.front < 0 THEN 0 ELSE w.front,
     back |-> w.back]

\* overflow and underflow of the front tank spill into the back tank, lines 75-84
spillFront(w, max) ==
    IF w.front > max
    THEN [front |-> max, back |-> w.back + (w.front - max)]
    ELSE IF w.front < 0
         THEN [front |-> 0, back |-> w.back + w.front]
         ELSE w

\* overflow and underflow of the back tank spill into the front tank, lines 86-95
spillBack(w, max) ==
    IF w.back > max
    THEN [front |-> w.front + (w.back - max), back |-> max]
    ELSE IF w.back < 0
         THEN [front |-> w.front + w.back, back |-> 0]
         ELSE w

\* the final clamp without its lower limit
clampTankUpperOnly(x, max) == Min(x, max)

\* the final clamp without its upper limit
clampTankLowerOnly(x, max) == Max(x, 0)

\* Math.min(Math.max(x, 0), maxTankCapacity), lines 97-98
clampTank(x, max) == Min(Max(x, 0), max)

\* the stored total reconciled with the clamped tanks
storedTotalReconciled(currentTotalWaterMass, front, back) == front + back

\* the value stored in currentTotalWaterMass by setCurrentTotalWaterMass, line 99
storedTotal(currentTotalWaterMass, front, back) == currentTotalWaterMass

\* the total of a single-tank setter without the other tank
tankSumForgotten(newTank, otherTank) == newTank

\* the value stored in currentTotalWaterMass by a single-tank setter, lines 114 and 130
tankSum(newTank, otherTank) == newTank + otherTank

\* the centre of mass shifted towards the lighter tank
positionReversed(t, waterInFront, waterInBack) ==
    RatMul(Rat(waterInBack - waterInFront, ballastTankCapacity(t) \div 2),
           Rat(length(t), 4))

\* the z coordinate autoSetCenterOfMass computes, lines 145-150
position(t, waterInFront, waterInBack) ==
    LET max == maxTankCapacity(t)
        diff == waterInFront - waterInBack
        ratio == Rat(diff, max)
    IN  RatMul(ratio, Rat(length(t), 4))

\* this.centerOfMass.set(0, 0, position) writes into the object the field
\* already refers to; setCenterOfMass then stores that same reference back.
autoSetCenterOfMass(h, t, w) ==
    [h EXCEPT ![fieldObject(t, "centerOfMass")] =
        Vector3(RatInt(0), RatInt(0), position(t, w.front, w.back))]

getCurrentMass(t) == tanks[t].total + emptyMass(t)

getTanksDifferenceMass(t) ==
    Max(tanks[t].front, tanks[t].back) - Min(tanks[t].front, tanks[t].back)

getCenterOfMassValue(t) == heap[fieldObject(t, "centerOfMass")]

----------------------------------------------------------------------------
(* Submarine: the pairing of constants and state *)

\* the SubmarineConstants object initOhio / initTyphoon builds
constantsObject(t) == <<"constants", t>>

\* the SubmarineState object initOhio / initTyphoon builds
stateObject(t) == <<"state", t>>

\* a constants object and a state constructed with it that a caller builds
Custom == "Custom"

PairTags == SubmarineTypes \cup {Custom}

\* this.submarineConstants of a state: the constants object its constructor
\* was handed, read by setCurrentTotalWaterMass, autoSetCenterOfMass and
\* getCurrentMass; no method of the state assigns it again
submarineConstants(state) == constantsObject(state[2])

----------------------------------------------------------------------------
(* Initial state: the registry after construction *)

NoCall == [op |-> "none", id |-> "none", arg |-> 0, front |-> 0, back |-> 0]

\* a call that hands nothing back (a method without return statement)
NoValue == "no value"

NoRenderer == [phase |-> "none", listener |-> 0, closures |-> 0,
               sizes |-> <<0, 0, 0>>, instance |-> <<0, 0, 0>>, stale |-> FALSE]

Init ==
    /\ items = [t \in SubmarineTypes |-> t]
    /\ current = Typhoon
    /\ tanks = [t \in SubmarineTypes |-> [total |-> 0, front |-> 0, back |-> 0]]
    /\ heap = [o \in Objects |->
                 IF o = ReturnedCopy THEN Free ELSE initialValue(o[2])]
    /\ held = NoObject
    /\ last = NoCall
    /\ result = NoValue
    /\ observer = [events |-> 0, saw |-> "none"]
    /\ window = {}
    /\ renderer = NoRenderer
    /\ pairing = [t \in SubmarineTypes |->
                    [constants |-> constantsObject(t), state |-> stateObject(t)]]

----------------------------------------------------------------------------
(* Operations *)

\* the record of a call: operation, target, argument and the tanks it found
Call(op, id, arg, t) ==
    [op |-> op, id |-> id, arg |-> arg,
     front |-> tanks[t].front, back |-> tanks[t].back]

setCurrentTotalWaterMass(t, currentTotalWaterMass) ==
    LET max == maxTankCapacity(t)
        w0 == evenSplit(tanks[t].front, tanks[t].back, currentTotalWaterMass)
        w2 == spillBack(spillFront(w0, max), max)
        w == [front |-> clampTank(w2.front, max),
              back |-> clampTank(w2.back, max),
              total |-> storedTotal(currentTotalWaterMass,
                                    clampTank(w2.front, max),
                                    clampTank(w2.back, max))]
    IN  /\ (currentTotalWaterMass - (tanks[t].front + tanks[t].back)) % (2 * Resolution) = 0
        /\ tanks' = [tanks EXCEPT ![t] = w]
        /\ heap' = autoSetCenterOfMass(heap, t, w)
        /\ last' = Call("setCurrentTotalWaterMass", t, currentTotalWaterMass, t)
        /\ result' = NoValue
        /\ UNCHANGED <<items, current, held, observer, others>>

setCurrentWaterMassFrontTank(t, currentWaterMassFrontTank) ==
    LET w == [total |-> tankSum(currentWaterMassFrontTank, tanks[t].back),
              front |-> currentWaterMassFrontTank,
              back |-> tanks[t].back]
    IN  /\ tanks' = [tanks EXCEPT ![t] = w]
        /\ heap' = autoSetCenterOfMass(heap, t, w)
        /\ last' = Call("setCurrentWaterMassFrontTank", t, currentWaterMassFrontTank, t)
        /\ result' = NoValue
        /\ UNCHANGED <<items, current, held, observer, others>>

setCurrentWaterMassBackTank(t, currentWaterMassBackTank) ==
    LET w == [total |-> tankSum(currentWaterMassBackTank, tanks[t].front),
              front |-> tanks[t].front,
              back |-> currentWaterMassBackTank]
    IN  /\ tanks' = [tanks EXCEPT ![t] = w]
        /\ heap' = autoSetCenterOfMass(heap, t, w)
        /\ last' = Call("setCurrentWaterMassBackTank", t, currentWaterMassBackTank, t)
        /\ result' = NoValue
        /\ UNCHANGED <<items, current, held, observer, others>>

\* this.items[submarine]
lookup(registry, id) == IF id \in DOMAIN registry THEN registry[id] ELSE Undefined

\* the registry entries after a switch: switchSubmarine does not write items
itemsAfterSwitch(registry, id) == registry

\* EventEmitter.trigger: the event is delivered once, inside the call, to the
\* registered listener, which reads getCurrentSubmarine() while handling it
trigger(seen) == [events |-> 1, saw |-> seen]

\* the listener is notified before this.current is written
seenBeforeAssignment(before, after) == before

\* what getCurrentSubmarine() gives a listener during the event: line 42
\* has assigned this.current before line 43 triggers
seenByListener(before, after) == after

\* switchSubmarine has no return statement and no check of its argument
switchSubmarine(id) ==
    /\ current' = lookup(items, id)
    /\ items' = itemsAfterSwitch(items, id)
    /\ observer' = trigger(seenByListener(current, lookup(items, id)))
    /\ result' = NoValue
    /\ last' = [op |-> "switchSubmarine", id |-> id, arg |-> 0, front |-> 0, back |-> 0]
    /\ UNCHANGED <<tanks, heap, held, others>>

getCurrentSubmarine == current

getSubmarine(type) == lookup(items, type)

\* a caller asks the registry for a vehicle
callGetSubmarine(type) ==
    /\ result' = getSubmarine(type)
    /\ last' = [op |-> "getSubmarine", id |-> type, arg |-> 0, front |-> 0, back |-> 0]
    /\ UNCHANGED <<items, current, tanks, heap, held, observer, others>>

\* the object a vector getter returns: a clone for the kinematic fields
\* (lines 204-275), the field's own object for getCenterOfMass (line 401)
returnedObject(t, f) ==
    IF f = "centerOfMass" THEN fieldObject(t, f) ELSE ReturnedCopy

getVector(t, f) ==
    /\ held' = returnedObject(t, f)
    /\ heap' = [heap EXCEPT ![ReturnedCopy] =
                  IF returnedObject(t, f) = ReturnedCopy
                  THEN heap[fieldObject(t, f)] ELSE Free]
    /\ last' = [op |-> "get", id |-> t, arg |-> 0, front |-> 0, back |-> 0]
    /\ result' = NoValue
    /\ UNCHANGED <<items, current, tanks, observer, others>>

\* the caller writes into the object a getter gave it (Vector3.set, Quaternion.set)
mutateReturned(v) ==
    /\ held # NoObject
    /\ Len(v) = Len(heap[held])
    /\ heap' = [heap EXCEPT ![held] = v]
    /\ last' = [op |-> "mutate", id |-> held[1], arg |-> 0, front |-> 0, back |-> 0]
    /\ result' = NoValue
    /\ UNCHANGED <<items, current, tanks, held, observer, others>>

\* setCurrentSpeed .. setAngularAcceleration: this.field.copy(argument)
setVector(t, f, v) ==
    /\ f # "centerOfMass"
    /\ Len(v) = Len(heap[fieldObject(t, f)])
    /\ heap' = [heap EXCEPT ![fieldObject(t, f)] = v]
    /\ last' = [op |-> "set", id |-> t, arg |-> 0, front |-> 0, back |-> 0]
    /\ result' = NoValue
    /\ UNCHANGED <<items, current, tanks, held, observer, others>>

VectorArgs == {Vector3(RatInt(1), RatInt(2), RatInt(3)),
               Quaternion(RatInt(0), RatInt(0), RatInt(1), RatInt(0))}

----------------------------------------------------------------------------
(* SubmarineState: body axes *)

\* Vector3.applyQuaternion(q): v rotated by q, computed as q * v * conj(q)
applyQuaternion(v, q) ==
    LET x == v[1]  y == v[2]  z == v[3]
        qx == q[1]  qy == q[2]  qz == q[3]  qw == q[4]
        ix == RatSub(RatAdd(RatMul(qw, x), RatMul(qy, z)), RatMul(qz, y))
        iy == RatSub(RatAdd(RatMul(qw, y), RatMul(qz, x)), RatMul(qx, z))
        iz == RatSub(RatAdd(RatMul(qw, z), RatMul(qx, y)), RatMul(qy, x))
        iw == RatNeg(RatAdd(RatAdd(RatMul(qx, x), RatMul(qy, y)), RatMul(qz, z)))
    IN  Vector3(
          RatAdd(RatAdd(RatMul(ix, qw), RatMul(iw, RatNeg(qx))),
                 RatSub(RatMul(iy, RatNeg(qz)), RatMul(iz, RatNeg(qy)))),
          RatAdd(RatAdd(RatMul(iy, qw), RatMul(iw, RatNeg(qy))),
                 RatSub(RatMul(iz, RatNeg(qx)), RatMul(ix, RatNeg(qz)))),
          RatAdd(RatAdd(RatMul(iz, qw), RatMul(iw, RatNeg(qz))),
                 RatSub(RatMul(ix, RatNeg(qy)), RatMul(iy, RatNeg(qx)))))

\* the operands of the cross product exchanged
crossReversed(a, b) ==
    Vector3(RatSub(RatMul(b[2], a[3]), RatMul(b[3], a[2])),
            RatSub(RatMul(b[3], a[1]), RatMul(b[1], a[3])),
            RatSub(RatMul(b[1], a[2]), RatMul(b[2], a[1])))

\* a.cross(b)
cross(a, b) ==
    Vector3(RatSub(RatMul(a[2], b[3]), RatMul(a[3], b[2])),
            RatSub(RatMul(a[3], b[1]), RatMul(a[1], b[3])),
            RatSub(RatMul(a[1], b[2]), RatMul(a[2], b[1])))

\* getCurrentOrientation(): a clone of the orientation the field holds now
getCurrentOrientation(t) == heap[fieldObject(t, "currentOrientation")]

getForwardAxis(t) ==
    applyQuaternion(Vector3(RatInt(0), RatInt(0), RatInt(1)), getCurrentOrientation(t))

getUpAxis(t) ==
    applyQuaternion(Vector3(RatInt(0), RatInt(1), RatInt(0)), getCurrentOrientation(t))

getRightAxis(t) == cross(getUpAxis(t), getForwardAxis(t))

\* unit quaternions (x, y, z, w) with rational components
OrientationArgs ==
    << Quaternion(RatInt(0), RatInt(0), RatInt(0), RatInt(1)),
       Quaternion(RatInt(1), RatInt(0), RatInt(0), RatInt(0)),
       Quaternion(RatInt(0), RatInt(1), RatInt(0), RatInt(0)),
       Quaternion(RatInt(0), RatInt(0), RatInt(1), RatInt(0)),
       Quaternion(Rat(1, 2), Rat(1, 2), Rat(1, 2), Rat(1, 2)),
       Quaternion(Rat(-1, 2), Rat(1, 2), Rat(1, 2), Rat(1, 2)),
       Quaternion(Rat(1, 2), Rat(-1, 2), Rat(1, 2), Rat(-1, 2)),
       Quaternion(Rat(3, 5), RatInt(0), RatInt(0), Rat(4, 5)),
       Quaternion(RatInt(0), Rat(3, 5), Rat(4, 5), RatInt(0)),
       Quaternion(Rat(2, 3), Rat(1, 3), Rat(2, 3), RatInt(0)),
       Quaternion(Rat(2, 7), Rat(3, 7), Rat(6, 7), RatInt(0)),
       Quaternion(Rat(1, 5), Rat(2, 5), Rat(2, 5), Rat(4, 5)) >>

\* setCurrentOrientation: this.currentOrientation.copy(argument); the argument
\* is OrientationArgs[i]
setCurrentOrientation(t, i) ==
    /\ heap' = [heap EXCEPT ![fieldObject(t, "currentOrientation")] = OrientationArgs[i]]
    /\ last' = [op |-> "setCurrentOrientation", id |-> t, arg |-> i, front |-> 0, back |-> 0]
    /\ result' = NoValue
    /\ UNCHANGED <<items, current, tanks, held, observer, others>>

----------------------------------------------------------------------------
(* SpecAxes: the orientation of both vehicles is driven *)

SetOrientation == \E t \in SubmarineTypes : \E i \in DOMAIN OrientationArgs :
                      getSubmarine(t) = t /\ setCurrentOrientation(t, i)

NextAxes == SetOrientation

SpecAxes == Init /\ [][NextAxes]_vars

----------------------------------------------------------------------------
(* Submarine: getters and setters of the pair *)

getConstants(t) == pairing[t].constants

getState(t) == pairing[t].state

PairCall(op, t) == [op |-> op, id |-> t, arg |-> 0, front |-> 0, back |-> 0]

\* setConstants(constants): this.constants = constants
setConstants(t, constants) ==
    /\ pairing' = [pairing EXCEPT ![t].constants = constants]
    /\ last' = PairCall("setConstants", t)
    /\ result' = NoValue
    /\ UNCHANGED <<items, current, tanks, heap, held, observer, window, renderer>>

\* setState(state): this.state = state
setState(t, state) ==
    /\ pairing' = [pairing EXCEPT ![t].state = state]
    /\ last' = PairCall("setState", t)
    /\ result' = NoValue
    /\ UNCHANGED <<items, current, tanks, heap, held, observer, window, renderer>>

----------------------------------------------------------------------------
(* SpecPairing: a caller replaces the constants and the state of the vehicles *)

SetConstants == \E t \in SubmarineTypes : \E p \in PairTags :
                    setConstants(t, constantsObject(p))

SetState == \E t \in SubmarineTypes : \E p \in PairTags :
                setState(t, stateObject(p))

NextPairing == SetConstants \/ SetState

SpecPairing == Init /\ [][NextPairing]_vars

----------------------------------------------------------------------------
(* Renderer *)

\* the frame of the view operations
model == <<items, current, tanks, heap, held, observer, pairing>>

RendererCall(op) == [op |-> op, id |-> "renderer", arg |-> 0, front |-> 0, back |-> 0]

\* <<width, height, pixelRatio>> as setInstance and resize hand them to the
\* WebGLRenderer: setSize(width, height), setPixelRatio(Math.min(pixelRatio, 2))
sized(sizes) == <<sizes[1], sizes[2], Min(sizes[3], 2)>>

\* window.addEventListener(type, f): f is registered unless it already is
addEventListener(listeners, f) == listeners \cup {f}

\* window.removeEventListener(type, f): the listener that is the function
\* object f is removed, if there is one
removeEventListener(listeners, f) == listeners \ {f}

\* the sizes the simulator may hold
SizesArgs == {<<w, h, r>> : w \in {800, 1920}, h \in {600, 1080}, r \in {1, 2, 3}}

\* new Renderer(simulator): the arrow function of line 25 is a new function
\* object, registered on window
constructRenderer(sizes) ==
    /\ renderer.phase = "none"
    /\ renderer' = [phase |-> "live", listener |-> renderer.closures + 1,
                    closures |-> renderer.closures + 1,
                    sizes |-> sizes, instance |-> sized(sizes), stale |-> FALSE]
    /\ window' = addEventListener(window, renderer.closures + 1)
    /\ last' = RendererCall("new Renderer")
    /\ result' = NoValue
    /\ UNCHANGED model

\* the simulator's sizes object, which the renderer shares, takes new values
changeSizes(sizes) ==
    /\ renderer.phase # "none"
    /\ renderer' = [renderer EXCEPT !.sizes = sizes]
    /\ last' = RendererCall("sizes")
    /\ result' = NoValue
    /\ UNCHANGED <<window, model>>

\* resize(): the instance takes the current sizes (lines 50-53)
resize(r) == [r EXCEPT !.instance = sized(r.sizes),
                       !.stale = (r.stale \/ r.phase = "disposed")]

\* the window dispatches a resize event to its registered listeners
windowResize ==
    /\ renderer.phase # "none"
    /\ renderer' = IF renderer.listener \in window THEN resize(renderer) ELSE renderer
    /\ last' = RendererCall("resize event")
    /\ result' = NoValue
    /\ UNCHANGED <<window, model>>

\* dispose(): the arrow function of line 70 is again a new function object,
\* and it is this one that removeEventListener is asked to remove
dispose ==
    /\ renderer.phase = "live"
    /\ renderer' = [renderer EXCEPT !.phase = "disposed",
                                    !.closures = renderer.closures + 1]
    /\ window' = removeEventListener(window, renderer.closures + 1)
    /\ last' = RendererCall("dispose")
    /\ result' = NoValue
    /\ UNCHANGED model

----------------------------------------------------------------------------
(* SpecRenderer: the life of the renderer *)

ConstructRenderer == \E sizes \in SizesArgs : constructRenderer(sizes)

ChangeSizes == \E sizes \in SizesArgs : changeSizes(sizes)

NextRenderer == ConstructRenderer \/ ChangeSizes \/ windowResize \/ dispose

SpecRenderer == Init /\ [][NextRenderer]_vars

----------------------------------------------------------------------------
(* Spec: the registry, both vehicles driven through getSubmarine(type) *)

SetTotal == \E t \in SubmarineTypes : \E m \in RegistryArgs(t) :
                getSubmarine(t) = t /\ setCurrentTotalWaterMass(t, m)

SetFront == \E t \in SubmarineTypes : \E m \in RegistryArgs(t) :
                getSubmarine(t) = t /\ setCurrentWaterMassFrontTank(t, m)

SetBack == \E t \in SubmarineTypes : \E m \in RegistryArgs(t) :
               getSubmarine(t) = t /\ setCurrentWaterMassBackTank(t, m)

Switch == \E id \in SubmarineTypes \cup {Unregistered} : switchSubmarine(id)

Lookup == \E id \in SubmarineTypes \cup {Unregistered} : callGetSubmarine(id)

Next == SetTotal \/ SetFront \/ SetBack \/ Switch \/ Lookup

Spec == Init /\ [][Next]_vars

----------------------------------------------------------------------------
(* SpecBallast: one vehicle is selected, then its ballast is driven through *)
(* getCurrentSubmarine().getState()                                         *)

Select == last = NoCall /\ \E id \in SubmarineTypes : switchSubmarine(id)

DriveTotal == \E t \in SubmarineTypes : \E m \in MassArgs(t) :
                  getCurrentSubmarine = t /\ setCurrentTotalWaterMass(t, m)

DriveFront == \E t \in SubmarineTypes : \E m \in MassArgs(t) :
                  getCurrentSubmarine = t /\ setCurrentWaterMassFrontTank(t, m)

DriveBack == \E t \in SubmarineTypes : \E m \in MassArgs(t) :
                 getCurrentSubmarine = t /\ setCurrentWaterMassBackTank(t, m)

NextBallast == Select \/ DriveTotal \/ DriveFront \/ DriveBack

SpecBallast == Init /\ [][NextBallast]_vars

----------------------------------------------------------------------------
(* SpecAlias: a caller reads and writes the vector fields of the active    *)
(* vehicle's state                                                         *)

GetVector == \E t \in SubmarineTypes : \E f \in VectorFields :
                 getCurrentSubmarine = t /\ getVector(t, f)

MutateReturned == \E v \in VectorArgs : mutateReturned(v)

SetVector == \E t \in SubmarineTypes : \E f \in VectorFields : \E v \in VectorArgs :
                 getCurrentSubmarine = t /\ setVector(t, f, v)

NextAlias == GetVector \/ MutateReturned \/ SetVector

SpecAlias == Init /\ [][NextAlias]_vars

----------------------------------------------------------------------------
(* Properties *)

AfterSetTotal == last.op = "setCurrentTotalWaterMass"

AfterSetFront == last.op = "setCurrentWaterMassFrontTank"

AfterSetBack == last.op = "setCurrentWaterMassBackTank"

centerZ(t) == getCenterOfMassValue(t)[3]

\* C1: after any sequence of the three ballast setters both tanks hold between
\* 0 and ballastTankCapacity/2.
TanksWithinCapacity ==
    \A t \in SubmarineTypes :
        /\ 0 <= tanks[t].front /\ tanks[t].front <= maxTankCapacity(t)
        /\ 0 <= tanks[t].back /\ tanks[t].back <= maxTankCapacity(t)

\* C2: after any ballast setter the stored total equals the sum of the two tanks.
TotalIsTankSum ==
    \A t \in SubmarineTypes : tanks[t].total = tanks[t].front + tanks[t].back

\* C3: getCurrentMass() is currentTotalWaterMass + emptyMass and lies between
\* emptyMass and maxMass.
CurrentMassInRange ==
    \A t \in SubmarineTypes :
        /\ getCurrentMass(t) = tanks[t].total + emptyMass(t)
        /\ emptyMass(t) <= getCurrentMass(t)
        /\ getCurrentMass(t) <= maxMass(t)

\* C4: a request between 0 and ballastTankCapacity is conserved by the
\* redistribution: afterwards front + back equals the requested total, whatever
\* the tanks held before.
MassConserved ==
    (AfterSetTotal /\ 0 <= last.arg /\ last.arg <= ballastTankCapacity(last.id))
        => tanks[last.id].front + tanks[last.id].back = last.arg

\* C4 witness: an in-range request met tanks whose even split overflowed the
\* front tank and underflowed the back tank at once.
MassConservedWitness ==
    /\ AfterSetTotal
    /\ 0 < last.arg /\ last.arg < ballastTankCapacity(last.id)
    /\ evenSplit(last.front, last.back, last.arg).front > maxTankCapacity(last.id)
    /\ evenSplit(last.front, last.back, last.arg).back < 0
    /\ tanks[last.id].front + tanks[last.id].back = last.arg

\* C5: setCurrentTotalWaterMass stores exactly the requested total, also when
\* the request is negative or above the capacity.
RequestedTotalStored == AfterSetTotal => tanks[last.id].total = last.arg

\* C5 witness: a request above the capacity is stored although the tanks hold less.
RequestedTotalStoredWitness ==
    /\ AfterSetTotal
    /\ last.arg > ballastTankCapacity(last.id)
    /\ tanks[last.id].total = last.arg
    /\ tanks[last.id].front + tanks[last.id].back < last.arg

\* C6: a request at or above the capacity leaves both tanks full and the centre
\* of mass at z = 0, a request at or below zero leaves both tanks empty; the
\* call takes effect in both cases (the request is recorded, nothing is rejected).
OutOfRangeSaturates ==
    AfterSetTotal =>
        /\ last.arg >= ballastTankCapacity(last.id) =>
              /\ tanks[last.id].front = maxTankCapacity(last.id)
              /\ tanks[last.id].back = maxTankCapacity(last.id)
              /\ centerZ(last.id) = RatInt(0)
              /\ tanks[last.id].total = last.arg
        /\ last.arg <= 0 =>
              /\ tanks[last.id].front = 0
              /\ tanks[last.id].back = 0
              /\ tanks[last.id].total = last.arg

\* C6 witness: the Ohio at zero ballast is asked for 30,000,000 kg and ends with
\* 9,882,000 kg in each tank.
OutOfRangeSaturatesWitness ==
    /\ AfterSetTotal /\ last.id = Ohio /\ last.arg = 30000000
    /\ last.front = 0 /\ last.back = 0
    /\ tanks[Ohio].front = 9882000 /\ tanks[Ohio].back = 9882000
    /\ tanks[Ohio].total = 30000000

\* C7: a single-tank setter stores its argument unclamped in the named tank,
\* leaves the other tank as it was and stores the sum of both as the total.
DirectSetters ==
    /\ AfterSetFront =>
          /\ tanks[last.id].front = last.arg
          /\ tanks[last.id].back = last.back
          /\ tanks[last.id].total = last.arg + last.back
    /\ AfterSetBack =>
          /\ tanks[last.id].back = last.arg
          /\ tanks[last.id].front = last.front
          /\ tanks[last.id].total = last.arg + last.front

\* C7 witness: the front tank is set beyond its capacity while the back tank
\* holds 2,000,000 kg.
DirectSettersWitness ==
    /\ AfterSetFront
    /\ last.arg > maxTankCapacity(last.id)
    /\ last.back = 2000000
    /\ tanks[last.id].front = last.arg
    /\ tanks[last.id].total = last.arg + 2000000

\* ((front - back) / (ballastTankCapacity / 2)) * length / 4 as a fraction of
\* whole numbers of Resolution
expectedCenterZ(t) ==
    Rat(((tanks[t].front - tanks[t].back) \div Resolution) * length(t),
        (maxTankCapacity(t) \div Resolution) * 4)

\* C8: after every ballast setter the centre of mass is
\* (0, 0, ((front - back) / (ballastTankCapacity/2)) * length/4); z has the sign
\* of front - back.
CenterOfMassSynchronized ==
    \A t \in SubmarineTypes :
        /\ getCenterOfMassValue(t) = Vector3(RatInt(0), RatInt(0), expectedCenterZ(t))
        /\ RatSign(centerZ(t)) =
              (IF tanks[t].front > tanks[t].back THEN 1
               ELSE IF tanks[t].front < tanks[t].back THEN -1 ELSE 0)

\* C8 witness: a setter left the front tank heavier and the centre of mass forward.
CenterOfMassSynchronizedWitness ==
    /\ AfterSetFront
    /\ tanks[last.id].front > tanks[last.id].back
    /\ tanks[last.id].back > 0
    /\ RatSign(centerZ(last.id)) = 1

\* C9: writing into the object a vector getter returned never changes the value
\* of any field of the state.
NoAliasingThroughGetters ==
    [][last'.op = "mutate" =>
          \A o \in StateObjects : heap'[o] = heap[o]]_vars

\* C10: switchSubmarine changes only which vehicle is current, and a ballast
\* setter of one vehicle changes nothing of the other vehicle; the registry is
\* never rewritten.
VehicleStatesPersist ==
    [][/\ items' = items
       /\ last'.op = "switchSubmarine" =>
             /\ tanks' = tanks
             /\ \A o \in StateObjects : heap'[o] = heap[o]
       /\ last'.op # "switchSubmarine" =>
             \A u \in SubmarineTypes \ {last'.id} :
                 /\ tanks'[u] = tanks[u]
                 /\ \A f \in VectorFields :
                        heap'[fieldObject(u, f)] = heap[fieldObject(u, f)]]_vars

\* C10 witness: the Ohio is current again after a switch and still holds the
\* ballast it was given, as does the Typhoon.
VehicleStatesPersistWitness ==
    /\ last.op = "switchSubmarine" /\ last.id = Ohio /\ current = Ohio
    /\ tanks[Ohio].front = 30000000
    /\ tanks[Typhoon].total = 30000000 /\ tanks[Typhoon].front = maxTankCapacity(Typhoon)
    /\ centerZ(Ohio) # RatInt(0)

\* C11: every switchSubmarine call delivers exactly one SwitchSubmarine event,
\* inside the call and after current was reassigned: the listener that asks
\* getCurrentSubmarine() during the event sees the newly selected vehicle.
SwitchNotifiesAfterAssignment ==
    last.op = "switchSubmarine" =>
        /\ observer.events = 1
        /\ observer.saw = lookup(items, last.id)
        /\ observer.saw = getCurrentSubmarine

\* C11 witness: a switch from the Typhoon to the Ohio, whose listener saw the Ohio.
SwitchNotifiesAfterAssignmentWitness ==
    /\ last.op = "switchSubmarine" /\ last.id = Ohio
    /\ observer = [events |-> 1, saw |-> Ohio]
    /\ current = Ohio

\* C12: getSubmarine and switchSubmarine called with an identifier that is not
\* registered hand the caller an absent result.
InvalidIdSignalled ==
    (last.op \in {"getSubmarine", "switchSubmarine"} /\ last.id \notin DOMAIN items)
        => result = Undefined

\* C13: whatever identifiers switchSubmarine was called with, the current
\* vehicle is one of the registered vehicles.
SingleActiveVehicle == getCurrentSubmarine \in {items[id] : id \in DOMAIN items}

dot(a, b) == RatAdd(RatAdd(RatMul(a[1], b[1]), RatMul(a[2], b[2])), RatMul(a[3], b[3]))

RatTwice(p) == RatAdd(p, p)

\* column c of the rotation matrix of the unit quaternion q: the image of the
\* c-th unit vector under the rotation
rotationColumn(q, c) ==
    LET x == q[1]  y == q[2]  z == q[3]  w == q[4]
        one == RatInt(1)
    IN  IF c = 1
        THEN Vector3(RatSub(one, RatTwice(RatAdd(RatMul(y, y), RatMul(z, z)))),
                     RatTwice(RatAdd(RatMul(x, y), RatMul(w, z))),
                     RatTwice(RatSub(RatMul(x, z), RatMul(w, y))))
        ELSE IF c = 2
        THEN Vector3(RatTwice(RatSub(RatMul(x, y), RatMul(w, z))),
                     RatSub(one, RatTwice(RatAdd(RatMul(x, x), RatMul(z, z)))),
                     RatTwice(RatAdd(RatMul(y, z), RatMul(w, x))))
        ELSE Vector3(RatTwice(RatAdd(RatMul(x, z), RatMul(w, y))),
                     RatTwice(RatSub(RatMul(y, z), RatMul(w, x))),
                     RatSub(one, RatTwice(RatAdd(RatMul(x, x), RatMul(y, y)))))

\* C14: after setCurrentOrientation(q) with a unit quaternion q the forward
\* axis is (0,0,1) rotated by q, the up axis (0,1,0) rotated by q, the right
\* axis is up x forward, which is (1,0,0) rotated by q, and the three axes are
\* mutually orthogonal unit vectors.
BodyAxesFollowOrientation ==
    last.op = "setCurrentOrientation" =>
        LET q == OrientationArgs[last.arg]
            f == getForwardAxis(last.id)
            u == getUpAxis(last.id)
            r == getRightAxis(last.id)
        IN  /\ f = rotationColumn(q, 3)
            /\ u = rotationColumn(q, 2)
            /\ r = rotationColumn(q, 1)
            /\ r = cross(u, f)
            /\ dot(f, f) = RatInt(1) /\ dot(u, u) = RatInt(1) /\ dot(r, r) = RatInt(1)
            /\ dot(f, u) = RatInt(0) /\ dot(f, r) = RatInt(0) /\ dot(u, r) = RatInt(0)

\* C14 witness: the orientation was set to the rotation by 120 degrees about
\* (1,1,1), which carries the right axis from (1,0,0) to (0,1,0).
BodyAxesFollowOrientationWitness ==
    /\ last.op = "setCurrentOrientation"
    /\ OrientationArgs[last.arg] = Quaternion(Rat(1, 2), Rat(1, 2), Rat(1, 2), Rat(1, 2))
    /\ getRightAxis(last.id) = Vector3(RatInt(0), RatInt(1), RatInt(0))
    /\ getForwardAxis(last.id) = Vector3(RatInt(1), RatInt(0), RatInt(0))

\* C15: after dispose() the listener that the constructor registered on window
\* is registered no more, and no resize event reaches resize() of the disposed
\* renderer.
RendererListenerRemoved ==
    renderer.phase = "disposed" =>
        /\ renderer.listener \notin window
        /\ ~renderer.stale

outsideTank(t, x) == x < 0 \/ x > maxTankCapacity(t)

\* C16: after setCurrentTotalWaterMass(x), for any x and from any tank levels
\* the single-tank setters may have left, both tanks hold between 0 and
\* ballastTankCapacity/2.
TotalSetterRestoresBounds ==
    AfterSetTotal =>
        /\ ~outsideTank(last.id, tanks[last.id].front)
        /\ ~outsideTank(last.id, tanks[last.id].back)

\* C16 witness: setCurrentTotalWaterMass found a tank outside its range, left
\* there by a single-tank setter, and brought both tanks back inside.
TotalSetterRestoresBoundsWitness ==
    /\ AfterSetTotal
    /\ outsideTank(last.id, last.front) \/ outsideTank(last.id, last.back)
    /\ ~outsideTank(last.id, tanks[last.id].front)
    /\ ~outsideTank(last.id, tanks[last.id].back)

\* half of the water a request adds to the tanks it finds
halfAdded(front, back, newTotal) == (newTotal - (front + back)) \div 2

\* both candidates front + delta/2 and back + delta/2 lie in the tank range
candidatesFit(t, front, back, newTotal) ==
    /\ ~outsideTank(t, front + halfAdded(front, back, newTotal))
    /\ ~outsideTank(t, back + halfAdded(front, back, newTotal))

\* C17: when both candidates front + delta/2 and back + delta/2 lie in
\* [0, ballastTankCapacity/2], setCurrentTotalWaterMass(newTotal) changes each
\* tank by exactly delta/2; the imbalance front - back and the centre of mass
\* are the same after the call as before, and equal tanks stay equal.
EvenDistribution ==
    [][\A t \in SubmarineTypes :
          (/\ last'.op = "setCurrentTotalWaterMass" /\ last'.id = t
           /\ candidatesFit(t, tanks[t].front, tanks[t].back, last'.arg))
          => /\ tanks'[t].front =
                   tanks[t].front + halfAdded(tanks[t].front, tanks[t].back, last'.arg)
             /\ tanks'[t].back =
                   tanks[t].back + halfAdded(tanks[t].front, tanks[t].back, last'.arg)
             /\ tanks'[t].front - tanks'[t].back = tanks[t].front - tanks[t].back
             /\ getCenterOfMassValue(t)' = getCenterOfMassValue(t)
             /\ (tanks[t].front = tanks[t].back => tanks'[t].front = tanks'[t].back)]_vars

\* C17 witness: unequal tanks took a non-zero change of the total that fitted,
\* and their imbalance is what it was.
EvenDistributionWitness ==
    /\ AfterSetTotal
    /\ last.front # last.back
    /\ last.arg # last.front + last.back
    /\ candidatesFit(last.id, last.front, last.back, last.arg)
    /\ tanks[last.id].front = last.front + halfAdded(last.front, last.back, last.arg)
    /\ tanks[last.id].front - tanks[last.id].back = last.front - last.back
    /\ RatSign(centerZ(last.id)) # 0

\* C18: in every state reachable through setConstants and setState, the
\* constants object a vehicle's state computes with is the constants object the
\* vehicle's getConstants() returns.
PairingCoherent ==
    \A t \in SubmarineTypes : submarineConstants(getState(t)) = getConstants(t)

====
